---- MODULE Spec2Model ----
(***************************************************************************)
(* A model of orca_detector/database_parser.py: the segment quantizer, the *)
(* feature extractor, the stratified train/validate/test splitter, the     *)
(* feature persistence (save / load) and the top-level indexing run.       *)
(*                                                                         *)
(* Each component has its own specification over the shared variables:     *)
(*   SpecQuantize   _quantize_sample                                       *)
(*   SpecExtract    extract_segment_features                               *)
(*   SpecSplit      the stratified split of read_files_and_extract_features*)
(*   SpecSave       _extract_and_save_features, called repeatedly          *)
(*   SpecLoad       one save followed by load_features                     *)
(*   SpecRun        read_files_and_extract_features over a data directory  *)
(* The variables a specification does not use stay at their idle value.    *)
(***************************************************************************)
EXTENDS Integers, Sequences, FiniteSets, TLC

VARIABLES
    wav_file,          \* _quantize_sample: the sound file's metadata and sample_len
    sample_list,       \* _quantize_sample: the call's outcome
    log_mel_examples,  \* extract_segment_features: what the framing step produced
    X,                 \* extract_segment_features: the call's outcome
    all_samples,       \* label_files: the indexed files, label by label, in dict order
    percentages,       \* train_percentage and validate_percentage, in percent
    py_random,         \* state of the standard library's random generator
    np_random,         \* state of numpy's random generator
    datasets,          \* the split: TRAIN, VALIDATE and TEST, each label -> files
    windows_per_segment, \* how many windows the framing step yields for a segment
    fs,                \* the feature files under data_path: name -> contents
    last,              \* the last call on the feature files and its outcome
    calls              \* how many calls were made

qvars == <<wav_file, sample_list>>
xvars == <<log_mel_examples, X>>
svars == <<all_samples, percentages, py_random, np_random, datasets>>
pvars == <<windows_per_segment, fs, last, calls>>
vars == <<wav_file, sample_list, log_mel_examples, X, all_samples, percentages,
          py_random, np_random, datasets, windows_per_segment, fs, last, calls>>

\* ------------------------------------------------------------------ bounds
MaxFrames == 24
MaxRate == 3
MaxSampleLen == 2
MaxWindows == 3
NumWindowContents == 4
MaxSaves == 2
MaxSegs == 2
MaxCalls == 3

\* ------------------------------------------------------- program constants
NUM_FRAMES == 496
NUM_BANDS == 64
SEED == 251
MinFilesPerLabel == 10
TRAIN_PERCENTAGE == 70
VALIDATE_PERCENTAGE == 20
FILE_SAMPLING_SIZE_SECONDS == 2

\* ------------------------------------------------------------------ helpers
Range(s) == {s[i] : i \in DOMAIN s}

CeilDiv(a, b) == (a + b - 1) \div b

\* np.arange(start, stop, step) for step > 0
Arange(start, stop, step) ==
    [i \in 1..(IF stop > start THEN CeilDiv(stop - start, step) ELSE 0)
        |-> start + (i - 1) * step]

\* del s[-1] on a non-empty list
DelLast(s) == SubSeq(s, 1, Len(s) - 1)

RECURSIVE SeqsUpTo(_, _)
SeqsUpTo(S, n) ==
    IF n = 0 THEN {<<>>}
    ELSE LET shorter == SeqsUpTo(S, n - 1)
         IN  shorter \cup {Append(s, x) : s \in {t \in shorter : Len(t) = n - 1}, x \in S}

\* ---------------------------------------------------------- _quantize_sample
\* A segment reference '{file}:{start}:{frames}' is kept as its three fields.
SegmentRef(file, start, frames) == <<file, start, frames>>

\* A faulty variant: the trailing sample is not deleted.
QuantizeSampleKeepLast(label, file, frames, samplerate, sample_len) ==
    LET min_frames == sample_len * samplerate
    IN  IF frames > min_frames
        THEN LET file_parts == Arange(0, frames, min_frames)
             IN  [i \in 1..Len(file_parts) |->
                     <<label, SegmentRef(file, file_parts[i], min_frames)>>]
        ELSE <<>>

\* A faulty variant: the first sample is deleted instead of the last.
QuantizeSampleDropFirst(label, file, frames, samplerate, sample_len) ==
    LET min_frames == sample_len * samplerate
    IN  IF frames > min_frames
        THEN LET file_parts == Arange(0, frames, min_frames)
             IN  Tail([i \in 1..Len(file_parts) |->
                          <<label, SegmentRef(file, file_parts[i], min_frames)>>])
        ELSE <<>>

QuantizeSample(label, file, frames, samplerate, sample_len) ==
    LET min_frames == sample_len * samplerate
    IN  IF frames > min_frames
        THEN LET file_parts == Arange(0, frames, min_frames)
                 full == [i \in 1..Len(file_parts) |->
                             <<label, SegmentRef(file, file_parts[i], min_frames)>>]
             IN  DelLast(full)
        ELSE <<>>

Quantize ==
    /\ ~sample_list.done
    /\ sample_list' =
          [done |-> TRUE,
           value |-> QuantizeSample("Orca", "a.wav", wav_file.frames,
                                    wav_file.samplerate, wav_file.sample_len)]
    /\ UNCHANGED wav_file

\* --------------------------------------------------- extract_segment_features
\* An array is its shape and, per index of the leading axis, the content of
\* that slice: 0 is the all-zero slice, w > 0 the content of a framed window.
ZeroContent == 0

Zeros(shape) == [shape |-> shape, data |-> [i \in 1..shape[1] |-> ZeroContent]]

\* np.expand_dims(a, 3) of a 3-D array
ExpandDims3(a) == [shape |-> Append(a.shape, 1), data |-> a.data]

RECURSIVE StripLeadingOnes(_, _)
StripLeadingOnes(shape, n) ==
    IF Len(shape) > n /\ shape[1] = 1 THEN StripLeadingOnes(Tail(shape), n)
    ELSE shape

\* Whether numpy can assign a value of shape vshape to a target of shape tshape.
CanAssign(vshape, tshape) ==
    LET v == StripLeadingOnes(vshape, Len(tshape))
    IN  /\ Len(v) <= Len(tshape)
        /\ \A i \in 1..Len(v) :
              LET t == tshape[Len(tshape) - Len(v) + i]
              IN  v[i] = t \/ v[i] = 1

\* The framing step's result for a segment: k windows of NUM_FRAMES x NUM_BANDS.
Framed(windows) == [shape |-> <<Len(windows), NUM_FRAMES, NUM_BANDS>>, data |-> windows]

ExtractSegmentFeatures(examples) ==
    LET X0 == Zeros(<<1, NUM_FRAMES, NUM_BANDS, 1>>)
        spectrogram == ExpandDims3(examples)
    IN  IF spectrogram.shape[1] > 0
        THEN IF CanAssign(spectrogram.shape, Tail(X0.shape))
             THEN [status |-> "ok",
                   value |-> [X0 EXCEPT !.data = <<spectrogram.data[1]>>]]
             ELSE [status |-> "ValueError: could not broadcast", value |-> X0]
        ELSE [status |-> "ok", value |-> X0]

WindowContents == 1..NumWindowContents

Extract ==
    /\ ~X.done
    /\ LET r == ExtractSegmentFeatures(log_mel_examples)
       IN  X' = [done |-> TRUE, status |-> r.status, value |-> r.value]
    /\ UNCHANGED log_mel_examples

\* ------------------------------------------------------------ random.shuffle
\* Nothing seeds the random module, so its generator starts a process in a
\* state the system's entropy decides, and each randbelow(n) of the shuffle can
\* return any number below n, whatever the draws before it were. A state g of
\* the generator is a natural number, read as the draws to come: randbelow(n)
\* returns g % n and leaves g \div n. For draws d1 < n1, d2 < n2, ... the state
\* d1 + n1 * (d2 + n2 * (...)) returns exactly d1, d2, ..., so every sequence
\* of draws is the one of some state. The shuffle itself is the library's loop,
\*   for i in reversed(range(1, len(x))): j = randbelow(i + 1); swap x[i], x[j].
Randbelow(g, n) == g % n

NextGen(g, n) == g \div n

RECURSIVE ShuffleFrom(_, _, _)
ShuffleFrom(x, i, g) ==
    IF i < 1 THEN [list |-> x, gen |-> g]
    ELSE LET j == Randbelow(g, i + 1)
             swapped == [x EXCEPT ![i + 1] = x[j + 1], ![j + 1] = x[i + 1]]
         IN  ShuffleFrom(swapped, i - 1, NextGen(g, i + 1))

Shuffle(x, g) == ShuffleFrom(x, Len(x) - 1, g)

\* The arguments of the successive randbelow calls of a shuffle of n items
ShuffleBounds(n) == [k \in 1..(n - 1) |-> n + 1 - k]

RECURSIVE Product(_)
Product(bounds) == IF bounds = <<>> THEN 1 ELSE Head(bounds) * Product(Tail(bounds))

\* The states that differ in the draws of calls with these arguments
GenStates(bounds) == 0..(Product(bounds) - 1)

\* np.random.seed(n): the state the seed fixes
Seeded(n) == [seed |-> n]

\* ------------------------------------------------------- the stratified split
DatasetNames == <<"TRAIN", "VALIDATE", "TEST">>

\* A wav file under data_path/<label>/<folder>/
File(label, id) == [label |-> label, id |-> id]

Min(a, b) == IF a < b THEN a ELSE b

\* s[a:b] for 0 <= a and 0 <= b
Slice(s, a, b) == SubSeq(s, Min(a, Len(s)) + 1, Min(b, Len(s)))

\* ---- float arithmetic of lines 426-427
\* The percentages are Python floats (IEEE 754 doubles, 53 significant bits,
\* round to nearest, ties to even). A natural number beyond the machine
\* integers is the little-endian sequence of its digits in base Limb.
MantissaBits == 53

LimbBits == 15

Limb == 2 ^ LimbBits

RECURSIVE BigTimesFrom(_, _, _)
BigTimesFrom(a, k, carry) ==
    IF a = <<>> THEN (IF carry = 0 THEN <<>> ELSE <<carry>>)
    ELSE LET v == Head(a) * k + carry
         IN  <<v % Limb>> \o BigTimesFrom(Tail(a), k, v \div Limb)

\* a * k for 0 <= k < Limb
BigTimes(a, k) == BigTimesFrom(a, k, 0)

RECURSIVE BigDivModFrom(_, _, _, _)
BigDivModFrom(a, i, d, acc) ==
    IF i = 0 THEN acc
    ELSE LET v == acc.rem * Limb + a[i]
         IN  BigDivModFrom(a, i - 1, d, [quot |-> <<v \div d>> \o acc.quot, rem |-> v % d])

\* divmod(a, d) for 0 < d <= Limb
BigDivMod(a, d) == BigDivModFrom(a, Len(a), d, [quot |-> <<>>, rem |-> 0])

RECURSIVE Trim(_)
Trim(a) == IF a # <<>> /\ a[Len(a)] = 0 THEN Trim(SubSeq(a, 1, Len(a) - 1)) ELSE a

RECURSIVE SmallBitLength(_)
SmallBitLength(x) == IF x = 0 THEN 0 ELSE 1 + SmallBitLength(x \div 2)

BitLength(a) ==
    LET t == Trim(a)
    IN  IF t = <<>> THEN 0 ELSE LimbBits * (Len(t) - 1) + SmallBitLength(t[Len(t)])

\* a * 2^k
BigShiftLeft(a, k) ==
    [i \in 1..(k \div LimbBits) |-> 0] \o BigTimes(a, 2 ^ (k % LimbBits))

\* a // 2^k
BigShiftRight(a, k) ==
    BigDivMod(SubSeq(a, Min(k \div LimbBits, Len(a)) + 1, Len(a)), 2 ^ (k % LimbBits)).quot

RECURSIVE BigIncrement(_)
BigIncrement(a) ==
    IF a = <<>> THEN <<1>>
    ELSE IF Head(a) + 1 < Limb THEN <<Head(a) + 1>> \o Tail(a)
    ELSE <<0>> \o BigIncrement(Tail(a))

RECURSIVE BigToInt(_)
BigToInt(a) == IF a = <<>> THEN 0 ELSE Head(a) + Limb * BigToInt(Tail(a))

\* The double nearest to man * 2^exp, given whether bits below man were
\* already dropped (sticky): at most LimbBits bits are rounded away.
RoundToDouble(man, exp, sticky) ==
    LET t == BitLength(man) - MantissaBits
    IN  IF t <= 0 THEN [man |-> Trim(man), exp |-> exp]
        ELSE LET dm == BigDivMod(man, 2 ^ t)
                 half == 2 ^ (t - 1)
                 odd == dm.quot # <<>> /\ dm.quot[1] % 2 = 1
                 up == \/ dm.rem > half
                       \/ dm.rem = half /\ (sticky \/ odd)
             IN  [man |-> Trim(IF up THEN BigIncrement(dm.quot) ELSE dm.quot),
                  exp |-> exp + t]

\* The double nearest to num/den, for 0 <= num <= den <= Limb
FloatOfRatio(num, den) ==
    LET scale == MantissaBits + LimbBits - 1
        scaled == BigDivMod(BigShiftLeft(<<num>>, scale), den)
    IN  RoundToDouble(scaled.quot, 0 - scale, scaled.rem # 0)

\* The doubles the literals of percent/100 denote (.70 for 70), 0 <= percent <= 100
PercentFloats == [percent \in 0..100 |-> FloatOfRatio(percent, 100)] @@ <<>>

PercentToFloat(percent) == PercentFloats[percent]

\* k * x in doubles, for 0 <= k < Limb
FloatTimes(k, x) == RoundToDouble(BigTimes(x.man, k), x.exp, FALSE)

\* int(x) for x >= 0
FloatToInt(x) ==
    IF x.exp >= 0 THEN BigToInt(BigShiftLeft(x.man, x.exp))
    ELSE BigToInt(BigShiftRight(x.man, 0 - x.exp))

\* int((len(files) + 1) * percentage), the percentage in percent
IntOfProduct(n, percent) == FloatToInt(FloatTimes(n + 1, PercentToFloat(percent)))

\* The same numbers for the lists a label can hold here, computed once
NumFilesOf ==
    [percent \in 0..100 |->
        [n \in 0..(2 * MinFilesPerLabel) |-> IntOfProduct(n, percent)] @@ <<>>] @@ <<>>

NumFiles(n, percent) ==
    IF n <= 2 * MinFilesPerLabel /\ percent <= 100 THEN NumFilesOf[percent][n]
    ELSE IntOfProduct(n, percent)

\* A faulty variant: the remainder starts one file late.
SplitFilesSkipOne(files, train_percent, validate_percent) ==
    LET num_train_files == NumFiles(Len(files), train_percent)
        num_validate_files == NumFiles(Len(files), validate_percent)
    IN  [TRAIN |-> Slice(files, 0, num_train_files),
         VALIDATE |-> Slice(files, num_train_files,
                            num_train_files + num_validate_files),
         TEST |-> Slice(files, num_train_files + num_validate_files + 1, Len(files))]

\* The three slices of one label's shuffled files
SplitFiles(files, train_percent, validate_percent) ==
    LET num_train_files == NumFiles(Len(files), train_percent)
        num_validate_files == NumFiles(Len(files), validate_percent)
    IN  [TRAIN |-> Slice(files, 0, num_train_files),
         VALIDATE |-> Slice(files, num_train_files,
                            num_train_files + num_validate_files),
         TEST |-> Slice(files, num_train_files + num_validate_files, Len(files))]

EmptyDatasets == [d \in Range(DatasetNames) |-> <<>>]

\* The loop over all_samples.items(): a dict is the sequence of its items.
\* random.shuffle(files) shuffles the list held by all_samples in place.
RECURSIVE SplitFrom(_, _, _, _, _, _)
SplitFrom(samples, i, train_percent, validate_percent, g, acc) ==
    IF i > Len(samples) THEN [datasets |-> acc, gen |-> g, all_samples |-> samples]
    ELSE LET label == samples[i].label
             files == samples[i].files
         IN  IF Len(files) < MinFilesPerLabel
             THEN SplitFrom(samples, i + 1, train_percent, validate_percent, g, acc)
             ELSE LET shuffled == Shuffle(files, g)
                      parts == SplitFiles(shuffled.list, train_percent, validate_percent)
                  IN  SplitFrom([samples EXCEPT ![i].files = shuffled.list], i + 1,
                                train_percent, validate_percent,
                                shuffled.gen,
                                [d \in Range(DatasetNames) |->
                                    Append(acc[d], [label |-> label, files |-> parts[d]])])

StratifiedSplit(samples, train_percent, validate_percent, g) ==
    SplitFrom(samples, 1, train_percent, validate_percent, g, EmptyDatasets)

\* The arguments of the randbelow calls of the whole loop
RECURSIVE SplitBounds(_, _)
SplitBounds(samples, i) ==
    IF i > Len(samples) THEN <<>>
    ELSE (IF Len(samples[i].files) < MinFilesPerLabel THEN <<>>
          ELSE ShuffleBounds(Len(samples[i].files)))
         \o SplitBounds(samples, i + 1)

\* The states the generator can be in when a process gets to the split of
\* these files, as far as the draws of the split tell them apart
StartStates(samples) == GenStates(SplitBounds(samples, 1))

\* label_files: what walking the data directory can yield
IndexedLabels == {"Seal", "Noise"}

LabelOrders == {<<"Seal", "Noise">>, <<"Noise", "Seal">>}

\* Labels without a wav file are no key of the dict.
Samples(order, counts) ==
    LET present == SelectSeq(order, LAMBDA l : counts[l] > 0)
    IN  [i \in 1..Len(present) |->
            [label |-> present[i],
             files |-> [k \in 1..counts[present[i]] |-> File(present[i], k)]]]

\* The directories split: one label with the fewest files the loop shuffles
\* next to one it skips, and directories whose labels are all skipped. A
\* shuffle of MinFilesPerLabel files has MinFilesPerLabel! outcomes, one for
\* each state the generator can start in.
AllSamples ==
    {Samples(<<"Seal", "Noise">>,
             [l \in IndexedLabels |-> IF l = "Seal" THEN MinFilesPerLabel
                                      ELSE MinFilesPerLabel - 1])}
    \cup {Samples(o, c) : o \in LabelOrders,
                          c \in [IndexedLabels -> {0, 1, MinFilesPerLabel - 1}]}

\* label_files over the directory that yielded samples, the files of a label
\* in the order of the walk
LabelFiles(samples) ==
    [i \in DOMAIN samples |->
        [label |-> samples[i].label,
         files |-> [k \in 1..Len(samples[i].files) |-> File(samples[i].label, k)]]]

\* train_percentage and validate_percentage of the call, in percent: the defaults
Percentages == {<<TRAIN_PERCENTAGE, VALIDATE_PERCENTAGE>>}

Split ==
    /\ ~datasets.done
    /\ \E r \in {StratifiedSplit(all_samples, percentages[1], percentages[2], py_random)} :
           /\ datasets' = [done |-> TRUE, value |-> r.datasets]
           /\ py_random' = r.gen
           /\ all_samples' = r.all_samples
    /\ UNCHANGED <<percentages, np_random>>

\* ------------------------------------------------- the audio behind a file
\* What the sound file reader reports for a file, and what the framing step
\* yields for one of its segments: k windows, k the same for every segment.
SampleRateOf(file) == 1 + (file.id % 2)

FramesOf(file) ==
    SampleRateOf(file) * FILE_SAMPLING_SIZE_SECONDS * (1 + (file.id % 3)) + (file.id % 2)

LogMelExamples(segment, k) ==
    Framed([j \in 1..k |-> 1 + ((segment[1].id + segment[2] + j) % NumWindowContents)])

\* ------------------------------------------------------ orca_params.DatasetType
Member(name) == [kind |-> "member", name |-> name]

DatasetType == {Member(n) : n \in Range(DatasetNames)}

None == [kind |-> "None", name |-> ""]

\* item.value of a member
ValueOf(item) == [kind |-> "value", name |-> item.name]

\* x == v for an argument x and a member's value v: a member equals its value
PyEq(x, v) == x = v \/ (x \in DatasetType /\ v = ValueOf(x))

\* Whether x has the attribute name
HasName(x) == x \in DatasetType

DatasetArgs == DatasetType \cup {None} \cup {ValueOf(m) : m \in DatasetType}

\* ------------------------------------------------------------ the feature files
Filename(name) == name \o ".features"

BackupName(file_path) == file_path \o "-old"

Exists(files, file_path) == file_path \in DOMAIN files

Remove(files, file_path) == [f \in DOMAIN files \ {file_path} |-> files[f]]

WriteFile(files, file_path, contents) ==
    [f \in DOMAIN files \cup {file_path} |-> IF f = file_path THEN contents ELSE files[f]]

\* os.rename(src, dst): dst is replaced
Rename(files, src, dst) == WriteFile(Remove(files, src), dst, files[src])

NoFiles == [f \in {} |-> <<>>]

\* _backup_datafile(file_path)
BackupDatafile(files, file_path) ==
    IF Exists(files, file_path)
    THEN [fs |-> Rename(files, file_path, BackupName(file_path)), renamed |-> {file_path}]
    ELSE [fs |-> files, renamed |-> {}]

\* ------------------------------------------------- _extract_and_save_features
\* line 284: dataset_type not in [item.value for item in DatasetType]
ValidDatasetType(dataset_type) == \E item \in DatasetType : PyEq(dataset_type, ValueOf(item))

\* The loop of lines 292-298
ExtractAll(dataset, k) ==
    [i \in 1..Len(dataset) |-> ExtractSegmentFeatures(LogMelExamples(dataset[i][2], k))]

Outcome(files, status, removed, renamed, written, data) ==
    [fs |-> files, status |-> status, removed |-> removed, renamed |-> renamed,
     written |-> written, data |-> data]

ExtractAndSaveFeatures(files, dataset, dataset_type, k) ==
    IF ~ValidDatasetType(dataset_type)
    THEN Outcome(files, "ValueError: invalid DatasetType", {}, {}, {}, <<>>)
    ELSE IF ~HasName(dataset_type)
    THEN Outcome(files, "AttributeError", {}, {}, {}, <<>>)
    ELSE LET filename == Filename(dataset_type.name)
             removed == IF Exists(files, filename) THEN {filename} ELSE {}
             fs1 == IF Exists(files, filename) THEN Remove(files, filename) ELSE files
             extracted == ExtractAll(dataset, k)
         IN  IF \E i \in 1..Len(dataset) : extracted[i].status # "ok"
             THEN Outcome(fs1, "ValueError: could not broadcast", removed, {}, {}, <<>>)
             ELSE LET data == [i \in 1..Len(dataset) |->
                                  <<dataset[i][1], extracted[i].value>>]
                      backup == BackupDatafile(fs1, filename)
                  IN  Outcome(WriteFile(backup.fs, filename, data), "ok", removed,
                              backup.renamed, {filename}, data)

\* -------------------------------------------------------------- load_features
OTHER_CLASS == "Other"

Labels == {"Seal", "Noise", OTHER_CLASS}

NoArray == Zeros(<<0>>)

Loaded(status, labels, features) ==
    [status |-> status, labels |-> labels, features |-> features]

\* lines 319-320 for a dataset_type that is no member: "x not in DatasetType"
\* is the enum class's containment test, which for a non-member is False in
\* some versions of the interpreter, so that line 320 raises the ValueError,
\* and raises TypeError itself in others.
NotInDatasetType ==
    {"ValueError: invalid DatasetType",
     "TypeError: unsupported operand type(s) for 'in'"}

\* A faulty variant: the classes are renamed before they are removed.
LoadFeaturesRenameFirst(files, dataset_type, remove_classes, other_classes) ==
    IF dataset_type \notin DatasetType
    THEN {Loaded(status, <<>>, NoArray) : status \in NotInDatasetType}
    ELSE LET features_file == Filename(dataset_type.name)
         IN  IF ~Exists(files, features_file)
             THEN {Loaded("Exception: run database_parser.py first", <<>>, NoArray)}
             ELSE LET renamed == [i \in 1..Len(files[features_file]) |->
                                     IF files[features_file][i][1] \in other_classes
                                     THEN <<OTHER_CLASS, files[features_file][i][2]>>
                                     ELSE files[features_file][i]]
                      kept == SelectSeq(renamed, LAMBDA item : item[1] \notin remove_classes)
                  IN  IF kept = <<>>
                      THEN {Loaded("ValueError: not enough values to unpack", <<>>, NoArray)}
                      ELSE {Loaded("ok", [i \in 1..Len(kept) |-> kept[i][1]],
                                   [shape |-> <<Len(kept)>> \o Tail(kept[1][2].shape),
                                    data |-> [i \in 1..Len(kept) |-> kept[i][2].data[1]]])}

LoadFeatures(files, dataset_type, remove_classes, other_classes) ==
    IF dataset_type \notin DatasetType
    THEN {Loaded(status, <<>>, NoArray) : status \in NotInDatasetType}
    ELSE LET features_file == Filename(dataset_type.name)
         IN  IF ~Exists(files, features_file)
             THEN {Loaded("Exception: run database_parser.py first", <<>>, NoArray)}
             ELSE LET kept == SelectSeq(files[features_file],
                                     LAMBDA item : item[1] \notin remove_classes)
                      renamed == [i \in 1..Len(kept) |->
                                     IF kept[i][1] \in other_classes
                                     THEN <<OTHER_CLASS, kept[i][2]>>
                                     ELSE kept[i]]
                  IN  \* labels, features = zip(*features) needs an item
                      IF renamed = <<>>
                      THEN {Loaded("ValueError: not enough values to unpack", <<>>, NoArray)}
                      ELSE {Loaded("ok", [i \in 1..Len(renamed) |-> renamed[i][1]],
                                   \* np.array(features)[:, 0, :, :, :]
                                   [shape |-> <<Len(renamed)>> \o Tail(renamed[1][2].shape),
                                    data |-> [i \in 1..Len(renamed) |-> renamed[i][2].data[1]]])}

\* ------------------------------------------- read_files_and_extract_features
RECURSIVE Concat(_)
Concat(lists) == IF lists = <<>> THEN <<>> ELSE Head(lists) \o Concat(Tail(lists))

\* _quantize_samples over the pipeline's files, with the default sample_len
QuantizeSamples(samples) ==
    Concat([i \in 1..Len(samples) |->
               QuantizeSample(samples[i][1], samples[i][2], FramesOf(samples[i][2]),
                              SampleRateOf(samples[i][2]), FILE_SAMPLING_SIZE_SECONDS)])

\* _flatten_and_quantize_dataset: dataset is one split, label -> files
FlattenAndQuantizeDataset(dataset) ==
    LET dataset_flattened ==
            Concat([i \in 1..Len(dataset) |->
                       [j \in 1..Len(dataset[i].files) |->
                           <<dataset[i].label, dataset[i].files[j]>>]])
    IN  QuantizeSamples(dataset_flattened)

\* The loop of lines 436-440, from the i-th split on
RECURSIVE SaveFrom(_, _, _, _, _, _, _)
SaveFrom(files, split, i, k, removed, renamed, written) ==
    IF i > Len(DatasetNames) THEN Outcome(files, "ok", removed, renamed, written, <<>>)
    ELSE LET r == ExtractAndSaveFeatures(
                      files, FlattenAndQuantizeDataset(split[DatasetNames[i]]),
                      Member(DatasetNames[i]), k)
         IN  IF r.status # "ok"
             THEN Outcome(r.fs, r.status, removed \cup r.removed,
                          renamed \cup r.renamed, written \cup r.written, <<>>)
             ELSE SaveFrom(r.fs, split, i + 1, k, removed \cup r.removed,
                           renamed \cup r.renamed, written \cup r.written)

\* lines 405-413
AllFeaturesExist(files) == \A d \in Range(DatasetNames) : Exists(files, Filename(d))

\* A faulty variant: the cache check is left out.
ReadFilesAndExtractFeaturesNoCheck(files, samples, overwrite, g, k) ==
    LET split == StratifiedSplit(samples, TRAIN_PERCENTAGE, VALIDATE_PERCENTAGE, g).datasets
    IN  SaveFrom(files, split, 1, k, {}, {}, {})

ReadFilesAndExtractFeatures(files, samples, overwrite, g, k) ==
    IF ~overwrite /\ AllFeaturesExist(files)
    THEN Outcome(files, "ok", {}, {}, {}, <<>>)
    ELSE LET split == StratifiedSplit(samples, TRAIN_PERCENTAGE, VALIDATE_PERCENTAGE, g).datasets
         IN  SaveFrom(files, split, 1, k, {}, {}, {})

\* ------------------------------------------------------------------- actions
NoCall ==
    [op |-> "none", dataset_type |-> None, overwrite |-> FALSE,
     remove_classes |-> {}, other_classes |-> {}, before |-> NoFiles,
     status |-> "none", removed |-> {}, renamed |-> {}, written |-> {},
     data |-> <<>>, labels |-> <<>>, features |-> NoArray]

\* The datasets handed to a direct save: segments of two files per label
SaveSegments ==
    {<<l, SegmentRef(File(l, i), 0, FILE_SAMPLING_SIZE_SECONDS * SampleRateOf(File(l, i)))>> :
        l \in Labels, i \in 1..2}

SaveDatasets == SeqsUpTo(SaveSegments, MaxSegs)

\* 0 windows (a segment too short), 1 window, more than one
WindowCounts == {0, 1, 2}

Save(dataset, dataset_type) ==
    LET r == ExtractAndSaveFeatures(fs, dataset, dataset_type, windows_per_segment)
    IN  /\ fs' = r.fs
        /\ last' = [NoCall EXCEPT !.op = "save", !.dataset_type = dataset_type,
                                  !.before = fs, !.status = r.status,
                                  !.removed = r.removed, !.renamed = r.renamed,
                                  !.written = r.written, !.data = r.data]
        /\ calls' = calls + 1
        /\ UNCHANGED windows_per_segment

Load(dataset_type, remove_classes, other_classes) ==
    \E r \in LoadFeatures(fs, dataset_type, remove_classes, other_classes) :
        /\ last' = [NoCall EXCEPT !.op = "load", !.dataset_type = dataset_type,
                                  !.remove_classes = remove_classes,
                                  !.other_classes = other_classes,
                                  !.before = fs, !.status = r.status,
                                  !.labels = r.labels, !.features = r.features]
        /\ calls' = calls + 1
        /\ UNCHANGED <<fs, windows_per_segment>>

Run(overwrite, g) ==
    LET r == ReadFilesAndExtractFeatures(fs, all_samples, overwrite, g, windows_per_segment)
    IN  /\ fs' = r.fs
        /\ last' = [NoCall EXCEPT !.op = "run", !.overwrite = overwrite,
                                  !.before = fs, !.status = r.status,
                                  !.removed = r.removed, !.renamed = r.renamed,
                                  !.written = r.written]
        /\ calls' = calls + 1
        /\ UNCHANGED windows_per_segment

\* Someone deletes a feature file between two runs.
Cleanup(file_path) ==
    /\ Exists(fs, file_path)
    /\ fs' = Remove(fs, file_path)
    /\ last' = [NoCall EXCEPT !.op = "cleanup", !.before = fs, !.removed = {file_path}]
    /\ calls' = calls + 1
    /\ UNCHANGED windows_per_segment

\* ------------------------------------------------------------ idle values
IdleWav == [frames |-> 0, samplerate |-> 1, sample_len |-> 1]
IdleSampleList == [done |-> TRUE, value |-> <<>>]
IdleX == [done |-> TRUE, status |-> "none", value |-> NoArray]
IdleDatasets == [done |-> TRUE, value |-> EmptyDatasets]

\* ---------------------------------------------------------- specifications
InitQuantize ==
    /\ wav_file \in [frames : 0..MaxFrames, samplerate : 1..MaxRate,
                     sample_len : 1..MaxSampleLen]
    /\ sample_list = [done |-> FALSE, value |-> <<>>]
    /\ log_mel_examples = Framed(<<>>) /\ X = IdleX
    /\ all_samples = <<>> /\ percentages = <<TRAIN_PERCENTAGE, VALIDATE_PERCENTAGE>>
    /\ py_random = 0 /\ np_random = Seeded(SEED)
    /\ datasets = IdleDatasets
    /\ windows_per_segment = 1 /\ fs = NoFiles /\ last = NoCall /\ calls = 0

NextQuantize == Quantize /\ UNCHANGED <<xvars, svars, pvars>>

SpecQuantize == InitQuantize /\ [][NextQuantize]_vars

InitExtract ==
    /\ log_mel_examples \in {Framed(w) : w \in SeqsUpTo(WindowContents, MaxWindows)}
    /\ X = [done |-> FALSE, status |-> "none", value |-> NoArray]
    /\ wav_file = IdleWav /\ sample_list = IdleSampleList
    /\ all_samples = <<>> /\ percentages = <<TRAIN_PERCENTAGE, VALIDATE_PERCENTAGE>>
    /\ py_random = 0 /\ np_random = Seeded(SEED)
    /\ datasets = IdleDatasets
    /\ windows_per_segment = 1 /\ fs = NoFiles /\ last = NoCall /\ calls = 0

NextExtract == Extract /\ UNCHANGED <<qvars, svars, pvars>>

SpecExtract == InitExtract /\ [][NextExtract]_vars

InitSplit ==
    /\ all_samples \in AllSamples
    /\ percentages \in Percentages
    /\ py_random \in StartStates(all_samples)
    /\ np_random = Seeded(SEED)
    /\ datasets = [done |-> FALSE, value |-> EmptyDatasets]
    /\ wav_file = IdleWav /\ sample_list = IdleSampleList
    /\ log_mel_examples = Framed(<<>>) /\ X = IdleX
    /\ windows_per_segment = 1 /\ fs = NoFiles /\ last = NoCall /\ calls = 0

NextSplit == Split /\ UNCHANGED <<qvars, xvars, pvars>>

SpecSplit == InitSplit /\ [][NextSplit]_vars


InitSave ==
    /\ windows_per_segment \in WindowCounts
    /\ fs = NoFiles /\ last = NoCall /\ calls = 0
    /\ wav_file = IdleWav /\ sample_list = IdleSampleList
    /\ log_mel_examples = Framed(<<>>) /\ X = IdleX
    /\ all_samples = <<>> /\ percentages = <<TRAIN_PERCENTAGE, VALIDATE_PERCENTAGE>>
    /\ py_random = 0 /\ np_random = Seeded(SEED)
    /\ datasets = IdleDatasets

NextSave ==
    /\ calls < MaxSaves
    /\ \E dataset \in SaveDatasets, dataset_type \in DatasetArgs : Save(dataset, dataset_type)
    /\ UNCHANGED <<qvars, xvars, svars>>

SpecSave == InitSave /\ [][NextSave]_vars

InitLoad ==
    /\ windows_per_segment \in WindowCounts
    /\ fs = NoFiles /\ last = NoCall /\ calls = 0
    /\ wav_file = IdleWav /\ sample_list = IdleSampleList
    /\ log_mel_examples = Framed(<<>>) /\ X = IdleX
    /\ all_samples = <<>> /\ percentages = <<TRAIN_PERCENTAGE, VALIDATE_PERCENTAGE>>
    /\ py_random = 0 /\ np_random = Seeded(SEED)
    /\ datasets = IdleDatasets

SaveThen ==
    /\ last.op = "none"
    /\ \E dataset \in SaveDatasets, dataset_type \in DatasetType : Save(dataset, dataset_type)

ThenLoad ==
    /\ last.op = "save"
    /\ \E dataset_type \in DatasetType \cup {None},
          remove_classes \in SUBSET Labels, other_classes \in SUBSET Labels :
          Load(dataset_type, remove_classes, other_classes)

NextLoad ==
    \/ SaveThen /\ UNCHANGED <<qvars, xvars, svars>>
    \/ ThenLoad /\ UNCHANGED <<qvars, xvars, svars>>

SpecLoad == InitLoad /\ [][NextLoad]_vars

\* The data directories of the runs: those whose labels the split skips, so
\* that no draw decides what a run writes
RunSamples ==
    {s \in AllSamples : \A i \in DOMAIN s : Len(s[i].files) < MinFilesPerLabel}

InitRun ==
    /\ all_samples \in RunSamples
    /\ windows_per_segment \in WindowCounts
    /\ fs = NoFiles /\ last = NoCall /\ calls = 0
    /\ percentages = <<TRAIN_PERCENTAGE, VALIDATE_PERCENTAGE>>
    /\ py_random = 0 /\ np_random = Seeded(SEED)
    /\ datasets = IdleDatasets
    /\ wav_file = IdleWav /\ sample_list = IdleSampleList
    /\ log_mel_examples = Framed(<<>>) /\ X = IdleX

RunOnce ==
    /\ calls < MaxCalls
    /\ \E overwrite \in BOOLEAN, g \in StartStates(all_samples) : Run(overwrite, g)

CleanupOnce ==
    /\ calls < MaxCalls
    /\ \E d \in Range(DatasetNames) : Cleanup(Filename(d))

NextRun ==
    \/ RunOnce /\ UNCHANGED <<qvars, xvars, svars>>
    \/ CleanupOnce /\ UNCHANGED <<qvars, xvars, svars>>

SpecRun == InitRun /\ [][NextRun]_vars

\* ==================================================================== claims

\* ---- SpecSplit
FilesOf(split, label) ==
    LET hits == SelectSeq(split, LAMBDA item : item.label = label)
    IN  IF hits = <<>> THEN <<>> ELSE hits[1].files

Keys(split) == {split[i].label : i \in DOMAIN split}

NumKeys(split, label) == Cardinality({i \in DOMAIN split : split[i].label = label})

\* Fractions other than the defaults, in percent: nothing for TRAIN and all
\* for VALIDATE, thirds, and a sum above the whole
Fractions == {<<0, 100>>, <<33, 33>>, <<70, 50>>}

\* C1: after the stratified split, a label with 10 or more files is a key of
\* each of TRAIN, VALIDATE and TEST, its three file lists are pairwise disjoint,
\* hold no file twice and together hold exactly the files label_files indexed
\* for the label; a label with fewer than 10 files is a key of none of the three.
\* The shuffle reads no fraction, so the list it leaves in all_samples is the
\* one the slices are taken from at any fractions: it holds the label's files,
\* and at each pair of Fractions its three slices are that list cut in three.
C1_SplitPartitionsEveryLabel ==
    datasets.done =>
        \A i \in DOMAIN all_samples :
            LET label == all_samples[i].label
                files == LabelFiles(all_samples)[i].files
                train == FilesOf(datasets.value["TRAIN"], label)
                validate == FilesOf(datasets.value["VALIDATE"], label)
                test == FilesOf(datasets.value["TEST"], label)
            IN  IF Len(files) >= MinFilesPerLabel
                THEN /\ \A d \in Range(DatasetNames) : NumKeys(datasets.value[d], label) = 1
                     /\ Range(train) \cap Range(validate) = {}
                     /\ Range(train) \cap Range(test) = {}
                     /\ Range(validate) \cap Range(test) = {}
                     /\ Range(train) \cup Range(validate) \cup Range(test) = Range(files)
                     /\ Len(train) + Len(validate) + Len(test) = Len(files)
                     /\ Range(all_samples[i].files) = Range(files)
                     /\ \A p \in Fractions :
                           LET parts == SplitFiles(all_samples[i].files, p[1], p[2])
                           IN  parts.TRAIN \o parts.VALIDATE \o parts.TEST
                                   = all_samples[i].files
                ELSE \A d \in Range(DatasetNames) : label \notin Keys(datasets.value[d])

C1_Witness ==
    /\ datasets.done
    /\ \E i \in DOMAIN all_samples :
          /\ Len(all_samples[i].files) >= MinFilesPerLabel
          /\ all_samples[i].files # LabelFiles(all_samples)[i].files
          /\ all_samples[i].files = FilesOf(datasets.value["TRAIN"], all_samples[i].label)
                                      \o FilesOf(datasets.value["VALIDATE"], all_samples[i].label)
                                      \o FilesOf(datasets.value["TEST"], all_samples[i].label)
          /\ \A d \in Range(DatasetNames) :
                FilesOf(datasets.value[d], all_samples[i].label) # <<>>
    /\ \E i \in DOMAIN all_samples : Len(all_samples[i].files) < MinFilesPerLabel

\* C7: the shuffle draws from the generator seeded at process start, so the
\* split is the same in every run over the same indexed files: whatever state
\* the generator of the random module started the process in, the TRAIN,
\* VALIDATE and TEST lists are those of one run of these inputs, the run whose
\* generator started in state 0.
C7_RunsAgree ==
    datasets.done =>
        datasets.value =
            StratifiedSplit(LabelFiles(all_samples), percentages[1], percentages[2], 0).datasets

\* ---- SpecQuantize
SegmentFrames == wav_file.sample_len * wav_file.samplerate

\* C3, as claimed: the number of segment references is floor(D/S) - 1 when
\* floor(D/S) >= 1 and 0 otherwise, also when the frame count is no multiple
\* of the segment length.
C3_FloorMinusOne ==
    sample_list.done =>
        Len(sample_list.value) =
            IF wav_file.frames \div SegmentFrames >= 1
            THEN wav_file.frames \div SegmentFrames - 1
            ELSE 0

\* C3, amended: a file longer than one segment yields floor(D/S) - 1 references
\* when its frame count is a multiple of the segment length and floor(D/S)
\* references when it is not; a file of at most one segment yields none.
C3_CountByRemainder ==
    sample_list.done =>
        Len(sample_list.value) =
            IF wav_file.frames > SegmentFrames
            THEN IF wav_file.frames % SegmentFrames = 0
                 THEN wav_file.frames \div SegmentFrames - 1
                 ELSE wav_file.frames \div SegmentFrames
            ELSE 0

C3_Witness ==
    /\ sample_list.done
    /\ wav_file.frames % SegmentFrames # 0
    /\ wav_file.frames > 2 * SegmentFrames
    /\ Len(sample_list.value) = wav_file.frames \div SegmentFrames

\* C9: every segment reference starts at a frame >= 0, has frameCount =
\* segmentFrames > 0 and ends within the file's frames, and two references of
\* the file cover disjoint frame ranges.
C9_SegmentsInsideFile ==
    sample_list.done =>
        /\ \A i \in DOMAIN sample_list.value :
              LET ref == sample_list.value[i][2]
              IN  /\ ref[2] >= 0
                  /\ ref[3] = SegmentFrames
                  /\ ref[3] > 0
                  /\ ref[2] + ref[3] <= wav_file.frames
        /\ \A i, j \in DOMAIN sample_list.value :
              i # j =>
                  LET a == sample_list.value[i][2]
                      b == sample_list.value[j][2]
                  IN  a[2] + a[3] <= b[2] \/ b[2] + b[3] <= a[2]

C9_Witness ==
    /\ sample_list.done
    /\ Len(sample_list.value) >= 3
    /\ wav_file.frames % SegmentFrames # 0
    /\ SegmentFrames > 1

\* ---- SpecExtract
\* C6: for every number k >= 0 of framed windows the extraction returns, without
\* failing, one example of shape (NUM_FRAMES, NUM_BANDS, 1): all zeros when
\* k = 0, the first window when k >= 1.
C6_AlwaysOneExample ==
    X.done =>
        /\ X.status = "ok"
        /\ X.value.shape = <<1, NUM_FRAMES, NUM_BANDS, 1>>
        /\ X.value.data = IF Len(log_mel_examples.data) = 0 THEN <<ZeroContent>>
                          ELSE <<log_mel_examples.data[1]>>

\* ---- SpecSave
SavedFile == Filename(last.dataset_type.name)

\* C2: after a save to a split whose artifact an earlier save wrote, the backup
\* '<SPLIT_NAME>.features-old' holds what the earlier save wrote and
\* '<SPLIT_NAME>.features' holds what this save wrote.
C2_SecondSaveKeepsBackup ==
    (/\ last.op = "save"
     /\ last.status = "ok"
     /\ Exists(last.before, SavedFile)) =>
        /\ Exists(fs, BackupName(SavedFile))
        /\ fs[BackupName(SavedFile)] = last.before[SavedFile]
        /\ fs[SavedFile] = last.data

\* C8: a save called with a member of DatasetType passes the validation and
\* writes that split's artifact; called with anything else it fails and the
\* feature files are as they were.
C8_SaveValidatesSplitKind ==
    last.op = "save" =>
        IF last.dataset_type \in DatasetType
        THEN /\ last.status = "ok"
             /\ last.written = {SavedFile}
             /\ Exists(fs, SavedFile)
             /\ fs[SavedFile] = last.data
        ELSE /\ last.status # "ok"
             /\ fs = last.before
             /\ last.removed = {} /\ last.renamed = {} /\ last.written = {}

\* ---- SpecLoad
LoadedOf(items) ==
    [labels |-> [i \in 1..Len(items) |-> items[i][1]],
     contents |-> [i \in 1..Len(items) |-> items[i][2].data[1]]]

LoadedFile == Filename(last.dataset_type.name)

LoadRead ==
    /\ last.op = "load"
    /\ last.dataset_type \in DatasetType
    /\ Exists(fs, LoadedFile)

\* C4: a load of a saved split with nothing to remove and nothing to rename
\* succeeds and returns the saved labels and features, entry by entry in the
\* saved order; so it does for a split saved with no entry.
C4_RoundTrip ==
    (LoadRead /\ last.remove_classes = {} /\ last.other_classes = {}) =>
        /\ last.status = "ok"
        /\ last.labels = LoadedOf(fs[LoadedFile]).labels
        /\ last.features.data = LoadedOf(fs[LoadedFile]).contents

Primaries == {Filename(d) : d \in Range(DatasetNames)}

\* C10, as claimed: a run without overwrite neither removes nor rewrites the
\* artifact of a split that existed before the run, whatever the other splits'
\* artifacts.
C10_CachedSplitUntouched ==
    (last.op = "run" /\ ~last.overwrite) =>
        \A f \in Primaries :
            Exists(last.before, f) => f \notin (last.removed \cup last.written)

\* C10, amended: a run without overwrite neither removes, renames nor writes
\* any file when the artifacts of all three splits exist before the run.
C10_CachedWhenAllExist ==
    (last.op = "run" /\ ~last.overwrite /\ AllFeaturesExist(last.before)) =>
        /\ fs = last.before
        /\ last.removed = {} /\ last.renamed = {} /\ last.written = {}

\* Two runs: the first wrote the three artifacts, the second found them.
C10_Witness ==
    /\ last.op = "run" /\ ~last.overwrite /\ last.status = "ok"
    /\ calls = 2
    /\ AllFeaturesExist(last.before)
    /\ fs = last.before

====
